---- MODULE Spec2Model ----
(***************************************************************************)
(* State-machine model of examples/pushdescriptorswithtemplate:            *)
(* class VulkanExample (prepare, buildCommandBuffers, the uniform updates, *)
(* render and the destructor).                                             *)
(*                                                                         *)
(* Numbers.  frameTimer and the rotation angles are float in the program.  *)
(* The model keeps them as binary32 values: a record [k, s, m, e] of kind  *)
(* ("num", "inf" or "nan"), sign bit, significand and exponent, standing   *)
(* for (-1)^s * m * 2^e.  A product or a sum is computed exactly and then  *)
(* rounded to 24 significant bits, ties to even, as the hardware does.     *)
(***************************************************************************)
EXTENDS Integers, Sequences, FiniteSets, TLC

VARIABLES
    pc,                  \* position of the main thread
    device,              \* VulkanExampleBase::device is a live handle
    prepared,            \* VulkanExampleBase::prepared
    animate,             \* VulkanExample::animate
    paused,              \* VulkanExampleBase::paused
    frameTimer,          \* VulkanExampleBase::frameTimer, a float
    camera,              \* camera.matrices (an abstract id of the matrices)
    fn,                  \* the function pointers loaded in prepare()
    missing,             \* history: entry points whose lookup returned null
    rejected,            \* history: the device calls that returned an error
    pipeline,
    pipelineLayout,
    descriptorSetLayout,
    descriptorTemplate,
    templateObj,         \* the device-side template: its create info
    alive,               \* device objects created and not destroyed
    uniformBuffer,       \* scene uniform buffer: handle and mapped contents
    uniformData,
    cubes,               \* std::array<Cube, 2>
    cubeMapped,          \* contents of cube.uniformBuffer.mapped
    rot0,                \* history: the rotations the cubes started with
    incsInRange,         \* history: every increment so far was in [0,360)
    drawCmdBuffers,      \* recorded commands of each command buffer
    bufIdx,              \* i of the loop over drawCmdBuffers
    cubeIdx,             \* position of the loop over cubes
    useNew,              \* static bool useNew
    calls,               \* history: the binding calls issued, in order
    builds,              \* invocations of buildCommandBuffers
    submitted,           \* frames submitted by draw()
    renderCalls,         \* history: calls of render()
    lastRender           \* history: the branch the last render() took

vars ==
    <<pc, device, prepared, animate, paused, frameTimer, camera, fn, missing,
      rejected, pipeline, pipelineLayout, descriptorSetLayout,
      descriptorTemplate, templateObj, alive, uniformBuffer, uniformData,
      cubes, cubeMapped, rot0, incsInRange, drawCmdBuffers, bufIdx, cubeIdx, useNew, calls,
      builds, submitted, renderCalls, lastRender>>

envVars ==
    <<device, animate, paused, frameTimer, camera>>

loaderVars ==
    <<fn, missing>>

handleVars ==
    <<rejected, pipeline, pipelineLayout, descriptorSetLayout,
      descriptorTemplate, templateObj, alive>>

uniformVars ==
    <<uniformBuffer, uniformData, cubes, cubeMapped, rot0, incsInRange>>

cmdVars ==
    <<drawCmdBuffers, bufIdx, cubeIdx, useNew, calls, builds>>

frameVars ==
    <<prepared, submitted, renderCalls, lastRender>>

----------------------------------------------------------------------------
(* Bounds of the model *)

MaxCmdBuffers == 2

MaxBuilds == 2

MaxFrames == 1
MaxUpdates == 5

E2EFrames == 144

(* Program constants *)

NumCubes == 2

SizeofDescriptorBufferInfo == 24

SizeofDescriptorData == 72

CubeIds ==
    0 .. (NumCubes - 1)

-----------------------------------------------------------------------------
(* binary32 *)

\* The hidden bit of a normal significand
HiddenBit ==
    2 ^ 23

\* The least and the greatest exponent of the last place of a significand
MinExp ==
    0 - 149

MaxExp ==
    127 - 23

NaN ==
    [k |-> "nan", s |-> 0, m |-> 0, e |-> 0]

Inf(s) ==
    [k |-> "inf", s |-> s, m |-> HiddenBit, e |-> MaxExp + 1]

Zero(s) ==
    [k |-> "num", s |-> s, m |-> 0, e |-> MinExp]

\* The float with sign bit s, biased exponent ex and fraction bits frac
FromBits(s, ex, frac) ==
    IF ex = 255 THEN (IF frac = 0 THEN Inf(s) ELSE NaN)
    ELSE IF ex = 0 THEN [k |-> "num", s |-> s, m |-> frac, e |-> MinExp]
    ELSE [k |-> "num", s |-> s, m |-> HiddenBit + frac, e |-> ex - 150]

\* The position of the highest set bit of n >= 1
RECURSIVE FloorLog2(_)
FloorLog2(n) ==
    IF n <= 1 THEN 0 ELSE 1 + FloorLog2(n \div 2)

\* n / u rounded to the nearest integer, ties to the even one
RoundQuotient(n, u) ==
    LET q == n \div u
        r == n % u
    IN  IF 2 * r > u \/ (2 * r = u /\ q % 2 = 1) THEN q + 1 ELSE q

\* The float nearest to (-1)^s * n * 2^e, ties to even, for 0 <= n < 2^28:
\* 24 significant bits, fewer below the least normal, infinite above the
\* greatest
RoundFloat(s, n, e) ==
    IF n = 0 THEN Zero(s)
    ELSE
      LET top == FloorLog2(n)
          e0 == IF e + top - 23 < MinExp THEN MinExp ELSE e + top - 23
          drop == e0 - e
          m0 == IF drop <= 0 THEN n * (2 ^ (0 - drop))
                ELSE IF drop > top + 1 THEN 0
                ELSE RoundQuotient(n, 2 ^ drop)
          carry == (m0 = 2 * HiddenBit)
          m == IF carry THEN HiddenBit ELSE m0
          e1 == IF carry THEN e0 + 1 ELSE e0
      IN  IF e1 > MaxExp THEN Inf(s)
          ELSE IF m = 0 THEN Zero(s)
          ELSE [k |-> "num", s |-> s, m |-> m, e |-> e1]

\* The float d.0f of a natural number d
Deg(d) ==
    RoundFloat(0, d, 0)

\* -a
Negate(a) ==
    IF a.k = "nan" THEN a ELSE [a EXCEPT !.s = 1 - a.s]

\* The float product (halves / 2) * ft for a small natural number of halves:
\* 2.5f is 5 halves, 2.0f is 4
FloatMul(halves, ft) ==
    IF ft.k = "nan" THEN NaN
    ELSE IF ft.k = "inf" THEN ft
    ELSE RoundFloat(ft.s, halves * ft.m, ft.e - 1)

\* The float sum a + b: the operand of the lesser exponent is shifted to
\* three places below the other's last place, the bits shifted out kept as a
\* sticky last bit, and the exact sum of the two is rounded
FloatAdd(a, b) ==
    IF a.k = "nan" \/ b.k = "nan" THEN NaN
    ELSE IF a.k = "inf" THEN (IF b.k = "inf" /\ b.s # a.s THEN NaN ELSE a)
    ELSE IF b.k = "inf" THEN b
    ELSE IF a.m = 0 /\ b.m = 0 THEN Zero(IF a.s = 1 /\ b.s = 1 THEN 1 ELSE 0)
    ELSE IF a.m = 0 THEN b
    ELSE IF b.m = 0 THEN a
    ELSE
      LET hi == IF a.e >= b.e THEN a ELSE b
          lo == IF a.e >= b.e THEN b ELSE a
          d == hi.e - lo.e
          big == hi.m * 8
          small ==
              IF d <= 3 THEN lo.m * (2 ^ (3 - d))
              ELSE IF d - 3 >= 24 THEN 1
              ELSE LET q == lo.m \div (2 ^ (d - 3))
                   IN  IF lo.m % (2 ^ (d - 3)) # 0 /\ q % 2 = 0 THEN q + 1 ELSE q
          sum == (IF hi.s = 1 THEN 0 - big ELSE big)
                     + (IF lo.s = 1 THEN 0 - small ELSE small)
      IN  IF sum = 0 THEN Zero(0)
          ELSE IF sum < 0 THEN RoundFloat(1, 0 - sum, hi.e - 3)
          ELSE RoundFloat(0, sum, hi.e - 3)

\* |a| > |b| for two floats that are not NaN
MagnitudeGreater(a, b) ==
    a.e > b.e \/ (a.e = b.e /\ a.m > b.m)

\* a > b on floats: false when either is NaN
Greater(a, b) ==
    /\ a.k # "nan"
    /\ b.k # "nan"
    /\ IF a.s = 0 /\ b.s = 0 THEN MagnitudeGreater(a, b)
       ELSE IF a.s = 1 /\ b.s = 1 THEN MagnitudeGreater(b, a)
       ELSE a.s = 0 /\ ~(a.m = 0 /\ b.m = 0)

\* 360.0f
FullTurn ==
    Deg(360)

\* if (a > 360.0f) a -= 360.0f
Wrap(a) ==
    IF Greater(a, FullTurn) THEN FloatAdd(a, Negate(FullTurn)) ELSE a

\* The float 1.0f / 60.0f = 8947849 * 2^-29 (0x3C888889)
SixtiethSec ==
    FromBits(0, 121, 559241)

\* Every binary32 value: the finite ones (normal, or with the least exponent
\* when the hidden bit is clear), the two infinities and NaN
Floats ==
    {f \in [k : {"num"}, s : 0 .. 1, m : 0 .. (2 * HiddenBit - 1),
            e : MinExp .. MaxExp] : f.m >= HiddenBit \/ f.e = MinExp}
    \cup {Inf(0), Inf(1), NaN}

\* The float whose upper 16 bits are hi and whose lower 16 bits are lo
FromHalves(hi, lo) ==
    FromBits(hi \div 32768, (hi % 32768) \div 128, (hi % 128) * 65536 + lo)

\* frameTimer is a float the base class measures: any float
FrameTimers ==
    Floats

\* The frame times the bounded specifications draw from: 0.0f, 0.001f
\* (0x3A83126F), 0.002f, 1/144 s (0x3BE38E39), 1/120 s, 0.016f, 1/60 s,
\* 1/30 s, 0.5f, 1.0f, 2.0f, 143.0f, whose increments stay below 360, 200.0f,
\* whose increments (500 and 400) do not, -1/60 s, +infinity and NaN
SampleFrameTimers ==
    {Zero(0), FromBits(0, 117, 201327), FromBits(0, 118, 201327),
     FromBits(0, 119, 6524473), FromBits(0, 120, 559241),
     FromBits(0, 121, 201327), SixtiethSec, FromBits(0, 122, 559241),
     FromBits(0, 126, 0), Deg(1), Deg(2), Deg(143), Deg(200),
     Negate(SixtiethSec), Inf(0), NaN}

\* The values of frameTimer the bounded specifications start from: 1.0f, the
\* value the base class constructs it with, 1/60 s and 0.0f
StartFrameTimers ==
    {Deg(1), SixtiethSec, Zero(0)}

-----------------------------------------------------------------------------

\* Camera poses: 0 is the one the constructor sets up
Cameras ==
    {0, 1}

VK_SUCCESS ==
    "VK_SUCCESS"

VkResults ==
    {VK_SUCCESS, "VK_ERROR_OUT_OF_HOST_MEMORY"}

NULL ==
    <<"VK_NULL_HANDLE", 0>>

\* The value of a handle that was declared without an initializer
Indeterminate ==
    <<"indeterminate", 0>>

Undefined ==
    [defined |-> FALSE]

EntryPoints ==
    {"vkCmdPushDescriptorSetKHR", "vkGetPhysicalDeviceProperties2KHR",
     "vkCreateDescriptorUpdateTemplateKHR",
     "vkCmdPushDescriptorSetWithTemplateKHR",
     "vkCmdPushDescriptorSetWithTemplate2KHR"}

PFN ==
    <<"pfn", 1>>

ZeroRotation ==
    [x |-> Deg(0), y |-> Deg(0), z |-> Deg(0)]

\* The rotation whose three floats are all f
Filled(f) ==
    [x |-> f, y |-> f, z |-> f]

\* The float whose four bytes are all b
FloatOfByte(b) ==
    FromBits(b \div 128, (b % 128) * 2 + b \div 128,
             (b % 128) * 65536 + b * 256 + b)

\* The bytes a freed heap block can be filled with
FillBytes ==
    0 .. 255

\* A rotation from the six halves of its three words
RotationOfHalves(h) ==
    [x |-> FromHalves(h[1], h[2]), y |-> FromHalves(h[3], h[4]),
     z |-> FromHalves(h[5], h[6])]

\* glm::vec3 rotation has no initializer: each float of each cube holds
\* whatever bits the memory held, any float
InitRotations ==
    [CubeIds -> [x : Floats, y : Floats, z : Floats]]

\* Floats the bounded specifications leave in every component: whole angles
\* below, at and above 360 and 720, a negative one, 0.5f, 45.5f, 90.0f,
\* 355.0f, the two least subnormals and the greatest finite float, 0xDEADBEEF,
\* minus zero and the infinities
SampleWords ==
    {Deg(1), Deg(90), Deg(355), Deg(359), Deg(360), Deg(400), Deg(720),
     Deg(1080), Negate(Deg(360)), FromBits(0, 126, 0), FromBits(0, 132, 3538944),
     FromBits(0, 0, 1), FromBits(0, 0, 2), FromBits(0, 254, 8388607),
     FromHalves(57005, 48879), Zero(1), Inf(0), Inf(1)}

\* Blocks whose components and cubes differ: two made of angles, zeros, NaN
\* and infinity, a block that held the text "s/cr" "ate0" "1_co" "mode"
\* "ls/c" "ube.", one that held six floats between 0.17 and 0.24 and one
\* that held the doubles 88.0 and 120.0 (upper words 3.34375f and 3.46875f)
SampleBlocks ==
    {[i \in CubeIds |->
         IF i = 0 THEN [x |-> Deg(400),
                        y |-> FromBits(0, 120, 3947580),
                        z |-> FromBits(0, 255, 1)]
                  ELSE [x |-> FromBits(0, 255, 0),
                        y |-> FromBits(1, 131, 4309441),
                        z |-> Deg(0)]],
     [i \in CubeIds |->
         IF i = 0 THEN [x |-> Deg(359), y |-> Deg(0), z |-> Deg(1080)]
                  ELSE [x |-> Negate(Deg(1)), y |-> Deg(359),
                        z |-> FromBits(0, 134, 4408131)]],
     [i \in CubeIds |->
         IF i = 0 THEN RotationOfHalves(<<29283, 12147, 12389, 29793,
                                          28515, 24369>>)
                  ELSE RotationOfHalves(<<25956, 28525, 25391, 29548,
                                          11877, 25205>>)],
     [i \in CubeIds |->
         IF i = 0 THEN RotationOfHalves(<<15922, 11535, 15923, 13108,
                                          15924, 14681>>)
                  ELSE RotationOfHalves(<<15987, 46662, 15988, 48235,
                                          15989, 49808>>)],
     [i \in CubeIds |->
         IF i = 0 THEN RotationOfHalves(<<0, 0, 16470, 0, 0, 0>>)
                  ELSE RotationOfHalves(<<0, 0, 16478, 0, 0, 0>>)]}

\* The start rotations the bounded specifications draw from: every fill of
\* the memory with one byte (0x00 is rotation 0, 0xFF is NaN), the fills with
\* one float of SampleWords, and the blocks of SampleBlocks
SampleRotations ==
    {[i \in CubeIds |-> Filled(FloatOfByte(b))] : b \in FillBytes}
    \cup {[i \in CubeIds |-> Filled(f)] : f \in SampleWords}
    \cup SampleBlocks

Init ==
    /\ pc = "start"
    /\ device \in BOOLEAN
    /\ prepared = FALSE
    /\ animate = TRUE
    /\ paused = FALSE
    /\ frameTimer \in FrameTimers
    /\ camera = 0
    /\ fn = [e \in EntryPoints |-> NULL]
    /\ missing = {}
    /\ rejected = {}
    /\ pipeline = NULL
    /\ pipelineLayout = NULL
    /\ descriptorSetLayout = NULL
    /\ descriptorTemplate = Indeterminate
    /\ templateObj = Undefined
    /\ alive = {}
    /\ uniformBuffer = [buffer |-> NULL, mapped |-> Undefined]
    /\ uniformData = Undefined
    /\ rot0 \in InitRotations
    /\ incsInRange = TRUE
    /\ cubes = [i \in CubeIds |->
                  [texture |-> NULL, uniformBuffer |-> NULL,
                   rotation |-> rot0[i], modelMat |-> Undefined]]
    /\ cubeMapped = [i \in CubeIds |-> Undefined]
    /\ drawCmdBuffers = <<>>
    /\ bufIdx = 0
    /\ cubeIdx = 0
    /\ useNew = FALSE
    /\ calls = <<>>
    /\ builds = 0
    /\ submitted = 0
    /\ renderCalls = 0
    /\ lastRender = "none"

----------------------------------------------------------------------------
(* Device objects *)

Handle(kind, i) ==
    <<kind, i + 1>>

SceneBuffer ==
    Handle("uniformBuffer", 0)

CubeBuffer(i) ==
    Handle("cube.uniformBuffer", i)

CubeTexture(i) ==
    Handle("cube.texture", i)

\* The objects prepare() creates on the device
PrepareObjects ==
    {Handle("pipeline", 0), Handle("pipelineLayout", 0),
     Handle("descriptorSetLayout", 0), Handle("descriptorTemplate", 0),
     SceneBuffer}
    \cup {CubeBuffer(i) : i \in CubeIds} \cup {CubeTexture(i) : i \in CubeIds}

----------------------------------------------------------------------------
(* Fatal exits *)

\* vks::tools::exitFatal(message, -1): the process ends
ExitFatal ==
    pc' = "exited"

\* VK_CHECK_RESULT(f): passes on VK_SUCCESS, otherwise the process ends
VK_CHECK_RESULT(res) ==
    res = VK_SUCCESS

----------------------------------------------------------------------------
(* prepare(): the extension entry points *)

\* The variant of ResolveChecked without the null test
ResolveUnchecked(e, next) ==
    \E p \in {NULL, PFN} :
        /\ fn' = [fn EXCEPT ![e] = p]
        /\ missing' = IF p = NULL THEN missing \cup {e} ELSE missing
        /\ pc' = next

\* fn = vkGet*ProcAddr(..., e); if (!fn) exitFatal(...)
ResolveChecked(e, next) ==
    \E p \in {NULL, PFN} :
        /\ fn' = [fn EXCEPT ![e] = p]
        /\ IF p = NULL
             THEN /\ missing' = missing \cup {e}
                  /\ ExitFatal
             ELSE /\ missing' = missing
                  /\ pc' = next

\* VulkanExampleBase::prepare(): allocates one command buffer per swapchain image
PrepareBase ==
    /\ pc = "start"
    /\ device
    /\ \E n \in 1 .. MaxCmdBuffers :
           drawCmdBuffers' = [i \in 0 .. (n - 1) |-> <<>>]
    /\ pc' = "loadPushDescriptorSet"
    /\ UNCHANGED <<envVars, loaderVars, handleVars, uniformVars, frameVars,
                   bufIdx, cubeIdx, useNew, calls, builds>>

LoadPushDescriptorSet ==
    /\ pc = "loadPushDescriptorSet"
    /\ ResolveChecked("vkCmdPushDescriptorSetKHR", "loadProperties2")
    /\ UNCHANGED <<envVars, handleVars, uniformVars, cmdVars, frameVars>>

LoadProperties2 ==
    /\ pc = "loadProperties2"
    /\ ResolveChecked("vkGetPhysicalDeviceProperties2KHR", "loadCreateTemplate")
    /\ UNCHANGED <<envVars, handleVars, uniformVars, cmdVars, frameVars>>

LoadCreateTemplate ==
    /\ pc = "loadCreateTemplate"
    /\ ResolveChecked("vkCreateDescriptorUpdateTemplateKHR", "loadPushWithTemplate")
    /\ UNCHANGED <<envVars, handleVars, uniformVars, cmdVars, frameVars>>

LoadPushWithTemplate ==
    /\ pc = "loadPushWithTemplate"
    /\ ResolveChecked("vkCmdPushDescriptorSetWithTemplateKHR", "loadPushWithTemplate2")
    /\ UNCHANGED <<envVars, handleVars, uniformVars, cmdVars, frameVars>>

LoadPushWithTemplate2 ==
    /\ pc = "loadPushWithTemplate2"
    /\ ResolveChecked("vkCmdPushDescriptorSetWithTemplate2KHR", "createTemplate")
    /\ UNCHANGED <<envVars, handleVars, uniformVars, cmdVars, frameVars>>

----------------------------------------------------------------------------
(* prepare(): the update template *)

UNIFORM_BUFFER ==
    "VK_DESCRIPTOR_TYPE_UNIFORM_BUFFER"

COMBINED_IMAGE_SAMPLER ==
    "VK_DESCRIPTOR_TYPE_COMBINED_IMAGE_SAMPLER"

TemplateEntry(binding, type, offset) ==
    [dstBinding |-> binding, dstArrayElement |-> 0, descriptorCount |-> 1,
     descriptorType |-> type, offset |-> offset,
     stride |-> SizeofDescriptorData]

template_entries ==
    <<TemplateEntry(0, UNIFORM_BUFFER, 0),
      TemplateEntry(1, UNIFORM_BUFFER, SizeofDescriptorBufferInfo),
      TemplateEntry(2, COMBINED_IMAGE_SAMPLER, 2 * SizeofDescriptorBufferInfo)>>

\* VkDescriptorUpdateTemplateCreateInfoKHR, with the handles as they are now
template_info ==
    [defined |-> TRUE,
     descriptorUpdateEntryCount |-> 3,
     pDescriptorUpdateEntries |-> template_entries,
     templateType |-> "VK_DESCRIPTOR_UPDATE_TEMPLATE_TYPE_PUSH_DESCRIPTORS_KHR",
     descriptorSetLayout |-> descriptorSetLayout,
     pipelineBindPoint |-> "VK_PIPELINE_BIND_POINT_GRAPHICS",
     pipelineLayout |-> pipelineLayout,
     set |-> 0]

\* vkCreateDescriptorUpdateTemplateKHR(...): the result is not examined
CreateTemplate ==
    /\ pc = "createTemplate"
    /\ \E res \in VkResults :
           IF res = VK_SUCCESS
             THEN /\ descriptorTemplate' = Handle("descriptorTemplate", 0)
                  /\ templateObj' = template_info
                  /\ alive' = alive \cup {Handle("descriptorTemplate", 0)}
                  /\ rejected' = rejected
             ELSE /\ rejected' = rejected \cup {"descriptorTemplate"}
                  /\ UNCHANGED <<descriptorTemplate, templateObj, alive>>
    /\ pc' = "loadAssets"
    /\ UNCHANGED <<envVars, loaderVars, pipeline, pipelineLayout,
                   descriptorSetLayout, uniformVars, cmdVars, frameVars>>

----------------------------------------------------------------------------
(* The uniform buffers *)

\* updateUniformBuffers(): uniformData taken from the camera
UpdateUniformBuffers ==
    [defined |-> TRUE,
     projection |-> <<"camera.matrices.perspective", camera>>,
     view |-> <<"camera.matrices.view", camera>>]

Translation(i) ==
    IF i = 0 THEN <<-20, 0, 0>> ELSE <<15, 5, 0>>

\* translate, rotate about X, Y, Z, scale by 0.25, composed in this order;
\* lengths in tenths and hundredths
ModelMat(i, rotation) ==
    [defined |-> TRUE,
     ops |-> <<<<"translate", Translation(i)>>,
               <<"rotateX", rotation.x>>,
               <<"rotateY", rotation.y>>,
               <<"rotateZ", rotation.z>>,
               <<"scale", 25>>>>]

\* The variant of Advance that never wraps
AdvanceNoWrap(a, halves, ft) ==
    FloatAdd(a, FloatMul(halves, ft))

\* a += speed * frameTimer, then the wrap; speed in halves of a degree per second
Advance(a, halves, ft) ==
    Wrap(FloatAdd(a, FloatMul(halves, ft)))

\* The variant of Animating that ignores both flags
AnimatingAlways(anim, pau) ==
    TRUE

\* animate && !paused
Animating(anim, pau) ==
    anim /\ ~pau

\* Both increments of a call with frame time ft are non-negative and below
\* 360 degrees
IncrementsInRange(ft) ==
    \A halves \in {4, 5} :
        /\ FloatMul(halves, ft).k = "num"
        /\ ~Greater(Zero(0), FloatMul(halves, ft))
        /\ Greater(FullTurn, FloatMul(halves, ft))

\* updateCubeUniformBuffers(): the cubes after the call
CubesAfterUpdate(cs, anim, pau, ft) ==
    LET withMat ==
            [i \in CubeIds |->
                [cs[i] EXCEPT !.modelMat = ModelMat(i, cs[i].rotation)]]
    IN  IF anim /\ ~pau
          THEN [withMat EXCEPT
                  ![0].rotation.x = Advance(cs[0].rotation.x, 5, ft),
                  ![1].rotation.y = Advance(cs[1].rotation.y, 4, ft)]
          ELSE withMat

\* updateCubeUniformBuffers(): what the memcpy leaves in each mapped buffer
MappedAfterUpdate(cs) ==
    [i \in CubeIds |-> ModelMat(i, cs[i].rotation)]

\* loadAssets(): the model and one texture per cube
LoadAssets ==
    /\ pc = "loadAssets"
    /\ cubes' = [i \in CubeIds |-> [cubes[i] EXCEPT !.texture = CubeTexture(i)]]
    /\ alive' = alive \cup {CubeTexture(i) : i \in CubeIds}
    /\ pc' = "prepareUniformBuffers"
    /\ UNCHANGED <<envVars, loaderVars, rejected, pipeline, pipelineLayout,
                   descriptorSetLayout, descriptorTemplate, templateObj,
                   uniformBuffer, uniformData, cubeMapped, rot0, incsInRange,
                   cmdVars,
                   frameVars>>

\* The createBuffer and map calls of prepareUniformBuffers(), in order:
\* calls 2j+1 and 2j+2 create and map buffer j (0 the scene's, j the cube j-1's)
BufferCalls ==
    1 .. (2 * (NumCubes + 1))

\* How many of the calls return before the first error
CallsPassed(results) ==
    Cardinality({n \in BufferCalls : \A j \in 1 .. n : VK_CHECK_RESULT(results[j])})

\* Buffer j has been created once n calls have passed
BufferCreated(j, n) ==
    2 * j + 1 <= n

\* prepareUniformBuffers(): the buffers are created and mapped one by one; a
\* failing call ends the process with the earlier buffers created and their
\* handles stored, otherwise both update functions run once
PrepareUniformBuffers ==
    /\ pc = "prepareUniformBuffers"
    /\ \E results \in [BufferCalls -> VkResults] :
           LET n == CallsPassed(results)
               created ==
                   [i \in CubeIds |->
                       [cubes[i] EXCEPT !.uniformBuffer =
                           IF BufferCreated(i + 1, n) THEN CubeBuffer(i) ELSE NULL]]
           IN  /\ alive' = alive
                       \cup (IF BufferCreated(0, n) THEN {SceneBuffer} ELSE {})
                       \cup {CubeBuffer(i) : i \in {j \in CubeIds : BufferCreated(j + 1, n)}}
               /\ IF n = 2 * (NumCubes + 1)
                    THEN /\ uniformData' = UpdateUniformBuffers
                         /\ uniformBuffer' = [buffer |-> SceneBuffer,
                                              mapped |-> UpdateUniformBuffers]
                         /\ cubeMapped' = MappedAfterUpdate(created)
                         /\ cubes' = CubesAfterUpdate(created, animate, paused,
                                                      frameTimer)
                         /\ incsInRange' =
                                (incsInRange /\ (Animating(animate, paused)
                                                   => IncrementsInRange(frameTimer)))
                         /\ rejected' = rejected
                         /\ pc' = "setupDescriptorSetLayout"
                    ELSE /\ uniformBuffer' =
                                [uniformBuffer EXCEPT !.buffer =
                                    IF BufferCreated(0, n) THEN SceneBuffer ELSE NULL]
                         /\ cubes' = created
                         /\ rejected' = rejected \cup {"buffer"}
                         /\ pc' = "exited"
                         /\ UNCHANGED <<uniformData, cubeMapped, incsInRange>>
    /\ UNCHANGED <<envVars, loaderVars, pipeline, pipelineLayout,
                   descriptorSetLayout, descriptorTemplate, templateObj, rot0,
                   cmdVars, frameVars>>

----------------------------------------------------------------------------
(* Layouts and pipeline *)

\* setupDescriptorSetLayout()
SetupDescriptorSetLayout ==
    /\ pc = "setupDescriptorSetLayout"
    /\ \E res \in VkResults :
           IF VK_CHECK_RESULT(res)
             THEN /\ descriptorSetLayout' = Handle("descriptorSetLayout", 0)
                  /\ alive' = alive \cup {Handle("descriptorSetLayout", 0)}
                  /\ rejected' = rejected
                  /\ pc' = "preparePipelines"
             ELSE /\ rejected' = rejected \cup {"descriptorSetLayout"}
                  /\ pc' = "exited"
                  /\ UNCHANGED <<descriptorSetLayout, alive>>
    /\ UNCHANGED <<envVars, loaderVars, pipeline, pipelineLayout,
                   descriptorTemplate, templateObj, uniformVars, cmdVars,
                   frameVars>>

\* preparePipelines(): the pipeline layout, then the graphics pipeline
PreparePipelines ==
    /\ pc = "preparePipelines"
    /\ \E resLayout \in VkResults, resPipeline \in VkResults :
           IF ~VK_CHECK_RESULT(resLayout)
             THEN /\ rejected' = rejected \cup {"pipelineLayout"}
                  /\ pc' = "exited"
                  /\ UNCHANGED <<pipelineLayout, pipeline, alive>>
             ELSE /\ pipelineLayout' = Handle("pipelineLayout", 0)
                  /\ IF ~VK_CHECK_RESULT(resPipeline)
                       THEN /\ rejected' = rejected \cup {"pipeline"}
                            /\ alive' = alive \cup {Handle("pipelineLayout", 0)}
                            /\ pc' = "exited"
                            /\ UNCHANGED pipeline
                       ELSE /\ pipeline' = Handle("pipeline", 0)
                            /\ alive' = alive \cup {Handle("pipelineLayout", 0),
                                                    Handle("pipeline", 0)}
                            /\ rejected' = rejected
                            /\ pc' = "buildCommandBuffers"
    /\ UNCHANGED <<envVars, loaderVars, descriptorSetLayout, descriptorTemplate,
                   templateObj, uniformVars, cmdVars, frameVars>>

----------------------------------------------------------------------------
(* buildCommandBuffers() *)

\* DescriptorData d_data of cube i
DescriptorData(i) ==
    [uniform_buffer |-> uniformBuffer.buffer,
     cube_uniform_buffer |-> cubes[i].uniformBuffer,
     cube_texture |-> cubes[i].texture]

\* vkCmdPushDescriptorSetWithTemplateKHR(cmd, template, layout, 0, &d_data)
DirectPush(d_data) ==
    [cmd |-> "vkCmdPushDescriptorSetWithTemplateKHR",
     descriptorUpdateTemplate |-> descriptorTemplate,
     layout |-> pipelineLayout,
     set |-> 0,
     pData |-> d_data]

\* The variant of StructuredPush that fills in set 1
StructuredPushSetOne(d_data) ==
    [cmd |-> "vkCmdPushDescriptorSetWithTemplate2KHR",
     pPushDescriptorSetWithTemplateInfo |->
         [sType |-> "VK_STRUCTURE_TYPE_PUSH_DESCRIPTOR_SET_WITH_TEMPLATE_INFO_KHR",
          pNext |-> NULL,
          descriptorUpdateTemplate |-> descriptorTemplate,
          layout |-> pipelineLayout,
          set |-> 1,
          pData |-> d_data]]

\* push_info filled in, then vkCmdPushDescriptorSetWithTemplate2KHR(cmd, &push_info)
StructuredPush(d_data) ==
    [cmd |-> "vkCmdPushDescriptorSetWithTemplate2KHR",
     pPushDescriptorSetWithTemplateInfo |->
         [sType |-> "VK_STRUCTURE_TYPE_PUSH_DESCRIPTOR_SET_WITH_TEMPLATE_INFO_KHR",
          pNext |-> NULL,
          descriptorUpdateTemplate |-> descriptorTemplate,
          layout |-> pipelineLayout,
          set |-> 0,
          pData |-> d_data]]

\* The variant of PushDescriptorSet with the test inverted
PushDescriptorSetInverted(sel, d_data) ==
    IF ~sel THEN StructuredPush(d_data) ELSE DirectPush(d_data)

\* if (useNew) { structured } else { direct }
PushDescriptorSet(sel, d_data) ==
    IF sel THEN StructuredPush(d_data) ELSE DirectPush(d_data)

\* The variant of ToggleUseNew that only ever sets the selector
ToggleUseNewSetOnly(sel) ==
    TRUE

\* useNew = !useNew
ToggleUseNew(sel) ==
    ~sel

\* Entry of buildCommandBuffers(): begin info, clear values, render pass info
StartBuild ==
    /\ builds < MaxBuilds
    /\ builds' = builds + 1
    /\ bufIdx' = 0
    /\ cubeIdx' = 0
    /\ pc' = "record"
    /\ UNCHANGED <<envVars, loaderVars, handleVars, uniformVars, frameVars,
                   drawCmdBuffers, useNew, calls>>

\* prepare() calls buildCommandBuffers()
BuildCommandBuffers ==
    /\ pc = "buildCommandBuffers"
    /\ StartBuild

\* The base class calls buildCommandBuffers() again (resize, overlay update)
RebuildCommandBuffers ==
    /\ pc = "loop"
    /\ StartBuild

\* One pass of the loop over cubes for drawCmdBuffers[bufIdx]: the buffer is
\* begun before the first cube and ended after the last, and an error of
\* vkBeginCommandBuffer or vkEndCommandBuffer ends the process
RecordCube ==
    /\ pc = "record"
    /\ bufIdx \in DOMAIN drawCmdBuffers
    /\ \E resBegin \in VkResults, resEnd \in VkResults :
           IF cubeIdx = 0 /\ ~VK_CHECK_RESULT(resBegin)
             THEN /\ rejected' = rejected \cup {"vkBeginCommandBuffer"}
                  /\ pc' = "exited"
                  /\ UNCHANGED cmdVars
             ELSE /\ LET begun == IF cubeIdx = 0 THEN <<>>
                                                 ELSE drawCmdBuffers[bufIdx]
                         push == PushDescriptorSet(useNew, DescriptorData(cubeIdx))
                     IN  /\ drawCmdBuffers' =
                                [drawCmdBuffers EXCEPT
                                    ![bufIdx] = begun \o <<push, [cmd |-> "model.draw"]>>]
                         /\ calls' = Append(calls, push.cmd)
                  /\ useNew' = ToggleUseNew(useNew)
                  /\ builds' = builds
                  /\ IF cubeIdx < NumCubes - 1
                       THEN /\ bufIdx' = bufIdx
                            /\ cubeIdx' = cubeIdx + 1
                            /\ UNCHANGED <<pc, rejected>>
                       ELSE IF VK_CHECK_RESULT(resEnd)
                              THEN /\ bufIdx' = bufIdx + 1
                                   /\ cubeIdx' = 0
                                   /\ UNCHANGED <<pc, rejected>>
                              ELSE /\ rejected' = rejected \cup {"vkEndCommandBuffer"}
                                   /\ pc' = "exited"
                                   /\ UNCHANGED <<bufIdx, cubeIdx>>
    /\ UNCHANGED <<envVars, loaderVars, pipeline, pipelineLayout,
                   descriptorSetLayout, descriptorTemplate, templateObj, alive,
                   uniformVars, frameVars>>

\* The loop over drawCmdBuffers is over: buildCommandBuffers() returns
FinishBuild ==
    /\ pc = "record"
    /\ bufIdx \notin DOMAIN drawCmdBuffers
    /\ pc' = IF prepared THEN "loop" ELSE "setPrepared"
    /\ UNCHANGED <<envVars, loaderVars, handleVars, uniformVars, cmdVars,
                   frameVars>>

\* prepared = true
SetPrepared ==
    /\ pc = "setPrepared"
    /\ prepared' = TRUE
    /\ pc' = "loop"
    /\ UNCHANGED <<envVars, loaderVars, handleVars, uniformVars, cmdVars,
                   submitted, renderCalls, lastRender>>

----------------------------------------------------------------------------
(* The frame loop *)

\* render() for a frame whose measured time is ft, at most maxCalls times;
\* draw() ends the process when vkQueueSubmit returns an error
RenderCall(ft, maxCalls) ==
    /\ pc \in {"start", "loop"}
    /\ renderCalls < maxCalls
    /\ renderCalls' = renderCalls + 1
    /\ frameTimer' = ft
    /\ IF ~prepared
         THEN /\ lastRender' = "notPrepared"
              /\ UNCHANGED <<uniformData, uniformBuffer, cubes, cubeMapped,
                             incsInRange, submitted, pc, rejected>>
         ELSE /\ uniformData' = UpdateUniformBuffers
              /\ uniformBuffer' =
                     [uniformBuffer EXCEPT !.mapped = UpdateUniformBuffers]
              /\ IF Animating(animate, paused)
                   THEN /\ cubeMapped' = MappedAfterUpdate(cubes)
                        /\ cubes' = CubesAfterUpdate(cubes, animate, paused, ft)
                        /\ incsInRange' = (incsInRange /\ IncrementsInRange(ft))
                        /\ lastRender' = "animated"
                   ELSE /\ lastRender' = "static"
                        /\ UNCHANGED <<cubes, cubeMapped, incsInRange>>
              /\ \E res \in VkResults :
                     IF VK_CHECK_RESULT(res)
                       THEN /\ submitted' = submitted + 1
                            /\ UNCHANGED <<pc, rejected>>
                       ELSE /\ rejected' = rejected \cup {"vkQueueSubmit"}
                            /\ pc' = "exited"
                            /\ UNCHANGED submitted
    /\ UNCHANGED <<device, animate, paused, camera, loaderVars, pipeline,
                   pipelineLayout, descriptorSetLayout, descriptorTemplate,
                   templateObj, alive, rot0, cmdVars, prepared>>

\* render() for a frame of any measured time
Render ==
    /\ frameTimer' \in FrameTimers
    /\ RenderCall(frameTimer', MaxFrames)

\* render() for a frame whose time is one of SampleFrameTimers
RenderSampled ==
    \E ft \in SampleFrameTimers : RenderCall(ft, MaxFrames)

\* The user moves the camera between frames
MoveCamera ==
    /\ pc = "loop"
    /\ \E c \in Cameras \ {camera} : camera' = c
    /\ UNCHANGED <<pc, device, animate, paused, frameTimer, loaderVars,
                   handleVars, uniformVars, cmdVars, frameVars>>

\* OnUpdateUIOverlay(): the "Animate" check box
ToggleAnimate ==
    /\ pc = "loop"
    /\ animate' = ~animate
    /\ UNCHANGED <<pc, device, paused, frameTimer, camera, loaderVars,
                   handleVars, uniformVars, cmdVars, frameVars>>

\* The base class toggles paused on a key press
TogglePaused ==
    /\ pc = "loop"
    /\ paused' = ~paused
    /\ UNCHANGED <<pc, device, animate, frameTimer, camera, loaderVars,
                   handleVars, uniformVars, cmdVars, frameVars>>

----------------------------------------------------------------------------
(* ~VulkanExample() *)

\* What the destructor destroys when device is set
Destroyed ==
    {pipeline, pipelineLayout, descriptorSetLayout, uniformBuffer.buffer}
    \cup {cubes[i].uniformBuffer : i \in CubeIds}
    \cup {cubes[i].texture : i \in CubeIds}

Destructor ==
    /\ \/ pc = "loop"
       \/ pc = "start" /\ ~device
    /\ alive' = IF device THEN alive \ Destroyed ELSE alive
    /\ pc' = "destroyed"
    /\ UNCHANGED <<envVars, loaderVars, rejected, pipeline, pipelineLayout,
                   descriptorSetLayout, descriptorTemplate, templateObj,
                   uniformVars, cmdVars, frameVars>>

----------------------------------------------------------------------------
(* The specifications *)

Prepare ==
    \/ PrepareBase
    \/ LoadPushDescriptorSet
    \/ LoadProperties2
    \/ LoadCreateTemplate
    \/ LoadPushWithTemplate
    \/ LoadPushWithTemplate2
    \/ CreateTemplate
    \/ LoadAssets
    \/ PrepareUniformBuffers
    \/ SetupDescriptorSetLayout
    \/ PreparePipelines
    \/ BuildCommandBuffers
    \/ RecordCube
    \/ FinishBuild
    \/ SetPrepared

Next ==
    \/ Prepare
    \/ RebuildCommandBuffers
    \/ Render
    \/ MoveCamera
    \/ ToggleAnimate
    \/ TogglePaused
    \/ Destructor

\* The program: any start rotation, any frame time.  Its start states are
\* too many to enumerate; the specifications below take the same steps from
\* the sampled start states and with the sampled frame times
Spec ==
    Init /\ [][Next]_vars

\* The start states of the bounded specifications: start rotations of
\* SampleRotations and frame times of StartFrameTimers
InitSampled ==
    /\ rot0 \in SampleRotations
    /\ frameTimer \in StartFrameTimers
    /\ Init

\* Start-up, recording and teardown.  The actions of the frame loop left out
\* here leave the handles, the device objects and the recorded commands as
\* they are
NextBuild ==
    \/ Prepare
    \/ RebuildCommandBuffers
    \/ Destructor

SpecBuild ==
    InitSampled /\ [][NextBuild]_vars

\* Start-up and the frame loop with sampled frame times.
\* RebuildCommandBuffers and Destructor, left out here, leave the uniforms,
\* the rotations and the frame counters as they are
NextFrames ==
    \/ Prepare
    \/ RenderSampled
    \/ MoveCamera
    \/ ToggleAnimate
    \/ TogglePaused

SpecFrames ==
    InitSampled /\ [][NextFrames]_vars

\* 144 frames of 1/60 s each, animation on and never paused
RenderE2E ==
    /\ prepared
    /\ RenderCall(SixtiethSec, E2EFrames)

NextE2E ==
    \/ Prepare
    \/ RenderE2E

SpecE2E ==
    InitSampled /\ [][NextE2E]_vars

\* The program started on memory filled with zero
InitFromZero ==
    /\ rot0 = [i \in CubeIds |-> ZeroRotation]
    /\ frameTimer \in StartFrameTimers
    /\ Init

\* Frames whose time is one of SampleFrameTimers, animation on and never
\* paused
RenderAnimated ==
    /\ prepared
    /\ \E ft \in SampleFrameTimers : RenderCall(ft, MaxUpdates)

NextFromZero ==
    \/ Prepare
    \/ RenderAnimated

SpecFromZero ==
    InitFromZero /\ [][NextFromZero]_vars

----------------------------------------------------------------------------
(* Properties *)

DIRECT ==
    "vkCmdPushDescriptorSetWithTemplateKHR"

STRUCTURED ==
    "vkCmdPushDescriptorSetWithTemplate2KHR"

\* The template, layout, set and blob a recorded binding call hands to the
\* device: four discrete arguments, or the fields of the info record
PushedArgs(c) ==
    IF c.cmd = DIRECT
      THEN [descriptorUpdateTemplate |-> c.descriptorUpdateTemplate,
            layout |-> c.layout, set |-> c.set, pData |-> c.pData]
      ELSE LET info == c.pPushDescriptorSetWithTemplateInfo
           IN  [descriptorUpdateTemplate |-> info.descriptorUpdateTemplate,
                layout |-> info.layout, set |-> info.set, pData |-> info.pData]

\* The binding calls recorded in command buffer i, in order
Pushes(i) ==
    SelectSeq(drawCmdBuffers[i], LAMBDA c : c.cmd \in {DIRECT, STRUCTURED})

\* C1: over all binding calls since process start, call k (from 0) takes the
\* direct path when k is even and the structured path when k is odd, and the
\* selector, false at first, has flipped once per call and was never reset.
C1_Alternation ==
    /\ \A k \in 0 .. (Len(calls) - 1) :
           calls[k + 1] = IF k % 2 = 0 THEN DIRECT ELSE STRUCTURED
    /\ useNew = (Len(calls) % 2 = 1)

\* C1 witness: a second invocation of buildCommandBuffers has issued calls
C1_Witness ==
    /\ builds >= 2
    /\ Len(calls) >= 3 * NumCubes
    /\ pc = "loop"

\* C2: every recorded binding call, on either path, hands the device the
\* same template, the same pipeline layout, set 0 and the blob of its cube
\* (scene buffer, the cube's buffer, the cube's texture), which is what the
\* other path hands over for that cube.
C2_PathEquivalence ==
    \A i \in DOMAIN drawCmdBuffers :
        \A j \in 1 .. Len(Pushes(i)) :
            LET c == j - 1
                expected ==
                    [descriptorUpdateTemplate |-> descriptorTemplate,
                     layout |-> pipelineLayout,
                     set |-> 0,
                     pData |-> [uniform_buffer |-> SceneBuffer,
                                cube_uniform_buffer |-> CubeBuffer(c),
                                cube_texture |-> CubeTexture(c)]]
            IN  /\ PushedArgs(Pushes(i)[j]) = expected
                /\ PushedArgs(DirectPush(DescriptorData(c))) = expected
                /\ PushedArgs(StructuredPush(DescriptorData(c))) = expected

\* C2 witness: one command buffer holds a direct and a structured call
C2_Witness ==
    \E i \in DOMAIN drawCmdBuffers :
        /\ Len(Pushes(i)) = NumCubes
        /\ Pushes(i)[1].cmd = DIRECT
        /\ Pushes(i)[2].cmd = STRUCTURED

\* C3: the update template is created with a binding layout and a pipeline
\* layout that already exist, and Prepared is entered only once layouts,
\* template, pipeline and buffers all exist.
C3_TemplateAfterLayouts ==
    /\ templateObj.defined =>
           /\ templateObj.descriptorSetLayout # NULL
           /\ templateObj.pipelineLayout # NULL
    /\ (prepared /\ pc = "loop") => PrepareObjects \subseteq alive

\* C4: once a required entry point has resolved to null the process has
\* ended: no template, no recorded command, never prepared, no frame updated
\* or submitted.
C4_MissingEntryPointIsFatal ==
    missing # {} =>
        /\ pc = "exited"
        /\ ~templateObj.defined
        /\ Handle("descriptorTemplate", 0) \notin alive
        /\ calls = <<>>
        /\ \A i \in DOMAIN drawCmdBuffers : drawCmdBuffers[i] = <<>>
        /\ ~prepared
        /\ submitted = 0
        /\ ~uniformData.defined

\* C4 witness: the last of the five lookups returned null
C4_Witness ==
    /\ missing = {"vkCmdPushDescriptorSetWithTemplate2KHR"}
    /\ pc = "exited"

\* C5: when the device rejects the creation of the update template, startup
\* fails: nothing is recorded with that template and prepared stays false.
C5_RejectedTemplateIsFatal ==
    "descriptorTemplate" \in rejected =>
        /\ calls = <<>>
        /\ ~prepared

\* Every angle of every cube lies between 0 and 360, 360 included or not
AnglesWithin(hiIncluded) ==
    \A i \in CubeIds :
        \A a \in {cubes[i].rotation.x, cubes[i].rotation.y, cubes[i].rotation.z} :
            /\ a.k = "num"
            /\ ~Greater(Zero(0), a)
            /\ IF hiIncluded THEN ~Greater(a, FullTurn) ELSE Greater(FullTurn, a)

\* C6 as stated: from rotation 0, with increments in [0,360), every angle
\* stays in [0,360).
C6_HalfOpenRange ==
    (rot0 = [i \in CubeIds |-> ZeroRotation] /\ incsInRange)
        => AnglesWithin(FALSE)

\* C6 amended: from rotation 0, with increments in [0,360), every angle stays
\* in the closed range [0,360]; the value 360 itself can be left stored.
C6_ClosedRange ==
    (rot0 = [i \in CubeIds |-> ZeroRotation] /\ incsInRange)
        => AnglesWithin(TRUE)

\* C6 witness: from rotation 0 cube 0 went 357.5, 715 and was wrapped to 355,
\* cube 1 went 286, 572 and was wrapped to 212
C6_Witness ==
    /\ rot0 = [i \in CubeIds |-> ZeroRotation]
    /\ incsInRange
    /\ cubes[0].rotation.x = Deg(355)
    /\ cubes[1].rotation.y = Deg(212)

\* C7: from rotation 0, after startup and 144 animated frames of 1/60 s,
\* cube 0's rotation.x is 2.5 * 144 / 60 = 6.0 degrees.
C7_EndToEnd ==
    (rot0 = [i \in CubeIds |-> ZeroRotation] /\ submitted = E2EFrames)
        => cubes[0].rotation.x = Deg(6)

\* C8: after the destructor has run on a live device no object created in
\* prepare() is alive.
C8_TeardownLeavesNothing ==
    (pc = "destroyed" /\ device) => alive \cap PrepareObjects = {}

\* What a render() step does to the cubes and the scene uniform: in the
\* Prepared state the camera uniform is updated; when animate is set and paused
\* is not, cube 0's rotation.x and cube 1's rotation.y are advanced by the
\* frame's increments and the model matrices and mapped cube contents are
\* rewritten, otherwise cubes and mapped contents stay; before Prepared
\* nothing changes
RenderUpdates ==
    IF prepared
      THEN /\ uniformData' = UpdateUniformBuffers
           /\ uniformBuffer'.mapped = UpdateUniformBuffers
           /\ IF animate /\ ~paused
                THEN /\ cubes'[0].rotation.x =
                            Advance(cubes[0].rotation.x, 5, frameTimer')
                     /\ cubes'[1].rotation.y =
                            Advance(cubes[1].rotation.y, 4, frameTimer')
                     /\ cubes'[0].rotation.y = cubes[0].rotation.y
                     /\ cubes'[1].rotation.x = cubes[1].rotation.x
                     /\ \A i \in CubeIds :
                            cubes'[i].rotation.z = cubes[i].rotation.z
                     /\ \A i \in CubeIds :
                            /\ cubes'[i].modelMat = ModelMat(i, cubes[i].rotation)
                            /\ cubeMapped'[i] = cubes'[i].modelMat
                ELSE UNCHANGED <<cubes, cubeMapped>>
      ELSE UNCHANGED <<uniformData, uniformBuffer, cubes, cubeMapped,
                       submitted, drawCmdBuffers, prepared, alive, pc>>

\* C9: a render() call in the Prepared state updates the camera uniform and,
\* its submit accepted, submits one frame; it changes rotations, model
\* matrices and mapped cube contents only when animate is set and paused is
\* not, and leaves them unchanged otherwise; before Prepared it changes and
\* submits nothing.  An error of vkQueueSubmit is not a case of the frame
\* loop the statement is about.
C9_RenderEffect ==
    [][(renderCalls' # renderCalls /\ "vkQueueSubmit" \notin rejected') =>
        /\ RenderUpdates
        /\ prepared => submitted' = submitted + 1]_vars

\* C9 witness: after the camera was moved and the animation paused, a
\* prepared render() wrote the new camera to the uniform, submitted its
\* frame and left alone the cubes that start-up had turned
C9_Witness ==
    /\ lastRender = "static"
    /\ submitted = 1
    /\ camera # 0
    /\ uniformData = UpdateUniformBuffers
    /\ uniformBuffer.mapped = UpdateUniformBuffers
    /\ cubes[0].rotation # rot0[0]
    /\ pc = "loop"

\* C10: the selector is false whenever the recording of a command buffer
\* starts, so in every command buffer cube 0 is bound through the direct path
\* and cube 1 through the structured path, and never the other way round.
C10_PathFixedPerCube ==
    /\ (pc = "record" /\ cubeIdx = 0) => ~useNew
    /\ pc # "record" => ~useNew
    /\ \A i \in DOMAIN drawCmdBuffers :
           \A j \in 1 .. Len(Pushes(i)) :
               LET c == Pushes(i)[j]
                   blob == PushedArgs(c).pData
               IN  /\ blob.cube_uniform_buffer = CubeBuffer(0) => c.cmd = DIRECT
                   /\ blob.cube_uniform_buffer = CubeBuffer(1) => c.cmd = STRUCTURED
                   /\ blob.cube_uniform_buffer \in {CubeBuffer(0), CubeBuffer(1)}

\* C10 witness: two command buffers recorded in full by a second invocation
C10_Witness ==
    /\ builds >= 2
    /\ pc = "loop"
    /\ \E i \in DOMAIN drawCmdBuffers : i >= 1
    /\ \A i \in DOMAIN drawCmdBuffers : Len(Pushes(i)) = NumCubes

====
